---- MODULE Spec2Model ----
(***************************************************************************)
(* const_fmt: the fixed-capacity Buffer (src/const_fmt/src/buffer.rs), its *)
(* storage shapes (byte_buffer.rs) and the writer resolution (macros.rs).  *)
(*                                                                         *)
(* Numbers.  TLC's integers are 32 bits wide, the program's go up to 128   *)
(* bits, so an unsigned value is a little-endian sequence of limbs in base *)
(* 10^5 with no leading zero limb (zero is <<0>>); a signed value is a     *)
(* sign and such a magnitude.  Base 10^5 is not a power of the encoder's   *)
(* chunk 10^4, so value % 10000 and value / 10000 are real long divisions. *)
(* Bytes are numbers 0..255; text is a sequence of bytes.                  *)
(***************************************************************************)
EXTENDS Integers, Sequences, FiniteSets, TLC

VARIABLES bufs, last, fuel

vars == <<bufs, last, fuel>>

(***************************************************************************)
(* Bounds of the model.                                                    *)
(***************************************************************************)
\* operations of one run under Spec
MaxOps == 2
\* operations of one run under SpecAppend
MaxAppendOps == 4
\* buffers alive in one run
MaxBufs == 3

(***************************************************************************)
(* Machine arithmetic on the limb representation.                          *)
(***************************************************************************)
LimbBase == 10 ^ 5

RECURSIVE Norm(_)
Norm(v) ==
    IF Len(v) > 1 /\ v[Len(v)] = 0 THEN Norm(SubSeq(v, 1, Len(v) - 1)) ELSE v

\* quotient (not normalised) and remainder of v by a small divisor d <= 10^4
RECURSIVE DivMod(_, _)
DivMod(v, d) ==
    IF v = <<>> THEN [q |-> <<>>, r |-> 0]
    ELSE LET hi  == DivMod(Tail(v), d)
             cur == (hi.r * LimbBase) + Head(v)
         IN  [q |-> <<cur \div d>> \o hi.q, r |-> cur % d]

\* value / d
Div(v, d) == Norm(DivMod(v, d).q)

\* value % d
Mod(v, d) == DivMod(v, d).r

\* value >= k for a small k < 10^5
GeSmall(v, k) == Len(v) > 1 \/ v[1] >= k

ILog10Small(x) ==
    IF x >= 10000 THEN 4
    ELSE IF x >= 1000 THEN 3
    ELSE IF x >= 100 THEN 2
    ELSE IF x >= 10 THEN 1 ELSE 0

\* NonZero::ilog10: floor(log10(value)) of a non-zero value
ilog10(v) == (5 * (Len(v) - 1)) + ILog10Small(v[Len(v)])

\* `value as u16`: the low 16 bits
RECURSIVE AsU16(_)
AsU16(v) ==
    IF v = <<>> THEN 0
    ELSE (((((AsU16(Tail(v)) * 100) % 65536) * 1000) % 65536) + Head(v)) % 65536

\* bitwise and of two naturals
RECURSIVE BitAnd(_, _)
BitAnd(a, b) ==
    IF a = 0 \/ b = 0 THEN 0
    ELSE ((a % 2) * (b % 2)) + (2 * BitAnd(a \div 2, b \div 2))

(***************************************************************************)
(* Storage shapes: the members of ByteBuffer are [u8; N] and Concat<A, B>  *)
(* of two members.                                                         *)
(***************************************************************************)
Array(N) == <<"array", N>>

Concat(A, B) == <<"concat", A, B>>

IsConcat(shape) == shape[1] = "concat"

\* core::mem::size_of::<B>(): Concat is repr(C) and every member shape has
\* alignment 1, so there is no padding
RECURSIVE SizeOf(_)
SizeOf(shape) ==
    IF IsConcat(shape) THEN SizeOf(shape[2]) + SizeOf(shape[3]) ELSE shape[2]

(***************************************************************************)
(* Buffer<B>: the shape B, len, and the bytes of MaybeUninit<B>.           *)
(***************************************************************************)
\* a byte of MaybeUninit storage that was never written
Uninit == -1

create(B) == [shape |-> B, len |-> 0, mem |-> [k \in 1..SizeOf(B) |-> Uninit]]

new(N) == create(Array(N))

capacity(b) == SizeOf(b.shape)

len(b) == b.len

is_empty(b) == b.len = 0

remaining_capacity(b) == capacity(b) - b.len

as_str(b) == SubSeq(b.mem, 1, len(b))

clear(b) == [b EXCEPT !.len = 0]

\* ptr.write(byte) at byte offset off of the storage; st is one store
Store(mem, st) ==
    IF st.off + 1 \in DOMAIN mem THEN [mem EXCEPT ![st.off + 1] = st.byte] ELSE mem

RECURSIVE ApplyStores(_, _)
ApplyStores(mem, stores) ==
    IF stores = <<>> THEN mem
    ELSE ApplyStores(Store(mem, Head(stores)), Tail(stores))

\* the stores of copying bytes s to offset off
CopyStores(off, s) == [k \in 1..Len(s) |-> [off |-> off + k - 1, byte |-> s[k]]]

\* the outcome of one call: the buffer after it, Ok or Err, and what the
\* digit encoder did (its stores, and the value and length counter left for
\* the tail write)
Outcome(b, ok, stores, rem_value, rem_len) ==
    [b |-> b, ok |-> ok, stores |-> stores, rem_value |-> rem_value, rem_len |-> rem_len]

push_str_unchecked(b, s) ==
    [b EXCEPT !.mem = ApplyStores(b.mem, CopyStores(b.len, s)),
              !.len = b.len + Len(s)]

push_str(b, s) ==
    IF Len(s) > remaining_capacity(b)
    THEN Outcome(b, FALSE, <<>>, 0, 0)
    ELSE Outcome(push_str_unchecked(b, s), TRUE, CopyStores(b.len, s), 0, 0)

\* char::len_utf8
len_utf8(c) == IF c < 128 THEN 1 ELSE IF c < 2048 THEN 2 ELSE IF c < 65536 THEN 3 ELSE 4

\* char::encode_utf8 into [0; 4]
encode_utf8(c) ==
    CASE len_utf8(c) = 1 -> <<c, 0, 0, 0>>
      [] len_utf8(c) = 2 -> <<192 + (c \div 64), 128 + (c % 64), 0, 0>>
      [] len_utf8(c) = 3 -> <<224 + (c \div 4096), 128 + ((c \div 64) % 64), 128 + (c % 64), 0>>
      [] OTHER -> <<240 + (c \div 262144), 128 + ((c \div 4096) % 64),
                    128 + ((c \div 64) % 64), 128 + (c % 64)>>

\* write_char with its capacity check on one byte instead of len_utf8()
write_char_checks_one_byte(b, value) ==
    IF 1 > remaining_capacity(b)
    THEN Outcome(b, FALSE, <<>>, 0, 0)
    ELSE LET stores == CopyStores(b.len, SubSeq(encode_utf8(value), 1, len_utf8(value)))
         IN  Outcome([b EXCEPT !.len = b.len + len_utf8(value),
                               !.mem = ApplyStores(b.mem, stores)],
                     TRUE, stores, 0, 0)

write_char(b, value) ==
    IF len_utf8(value) > remaining_capacity(b)
    THEN Outcome(b, FALSE, <<>>, 0, 0)
    ELSE LET stores == CopyStores(b.len, SubSeq(encode_utf8(value), 1, len_utf8(value)))
         IN  Outcome([b EXCEPT !.len = b.len + len_utf8(value),
                               !.mem = ApplyStores(b.mem, stores)],
                     TRUE, stores, 0, 0)

(***************************************************************************)
(* The digit encoder.                                                      *)
(***************************************************************************)
\* LOOKUP_10000 built with the hundreds and the tens digit exchanged
LOOKUP_10000_tens_first(idx) ==
    LET v == idx \div 4
    IN  CASE idx % 4 = 3 -> (v % 10) + 48
          [] idx % 4 = 1 -> ((v \div 10) % 10) + 48
          [] idx % 4 = 2 -> ((v \div 100) % 10) + 48
          [] OTHER -> (v \div 1000) + 48

\* byte idx of the static table LOOKUP_10000
LOOKUP_10000(idx) ==
    LET v == idx \div 4
    IN  CASE idx % 4 = 3 -> (v % 10) + 48
          [] idx % 4 = 2 -> ((v \div 10) % 10) + 48
          [] idx % 4 = 1 -> ((v \div 100) % 10) + 48
          [] OTHER -> (v \div 1000) + 48

\* LOOKUP_10000.as_ptr().cast::<[u8; 4]>().add(index).read()
LookupRead(index) ==
    IF index \in 0..9999
    THEN [k \in 1..4 |-> LOOKUP_10000((4 * index) + k - 1)]
    ELSE [k \in 1..4 |-> Uninit]

BoolToInt(p) == IF p THEN 1 ELSE 0

\* write_lt_10000_unchecked advancing on len > 4, len > 3, len > 2
write_lt_10000_advances_late(ptr, value, n) ==
    LET lookup == LookupRead(value)
        p1 == ptr + BoolToInt(n > 4)
        p2 == p1 + BoolToInt(n > 3)
        p3 == p2 + BoolToInt(n > 2)
    IN  << [off |-> ptr, byte |-> lookup[1]],
           [off |-> p1, byte |-> lookup[2]],
           [off |-> p2, byte |-> lookup[3]],
           [off |-> p3, byte |-> lookup[4]] >>

\* the four stores of write_lt_10000_unchecked(ptr, value, len)
write_lt_10000_unchecked(ptr, value, n) ==
    LET lookup == LookupRead(value)
        p1 == ptr + BoolToInt(n >= 4)
        p2 == p1 + BoolToInt(n >= 3)
        p3 == p2 + BoolToInt(n >= 2)
    IN  << [off |-> ptr, byte |-> lookup[1]],
           [off |-> p1, byte |-> lookup[2]],
           [off |-> p2, byte |-> lookup[3]],
           [off |-> p3, byte |-> lookup[4]] >>

\* u8_ilog10
u8_ilog10(val) == BitAnd(val + 758, val + 412) \div 256

write_u8(b, value) ==
    LET n == u8_ilog10(AsU16(value)) + 1
    IN  IF n > remaining_capacity(b)
        THEN Outcome(b, FALSE, <<>>, 0, 0)
        ELSE LET stores == write_lt_10000_unchecked(b.len, AsU16(value), n)
             IN  Outcome([b EXCEPT !.len = b.len + n,
                                   !.mem = ApplyStores(b.mem, stores)],
                         TRUE, stores, AsU16(value), n)

\* the chunk loop with `while value > 10000`
RECURSIVE ImpLoop_gt(_, _, _, _)
ImpLoop_gt(value, n, ptr, stores) ==
    IF GeSmall(value, 10001)
    THEN LET index == Mod(value, 10000)
             chunk == LookupRead(index)
         IN  ImpLoop_gt(Div(value, 10000), n - 4, ptr - 4,
                        stores \o [k \in 1..4 |-> [off |-> ptr - 4 + k - 1, byte |-> chunk[k]]])
    ELSE [value |-> value, n |-> n, stores |-> stores]

\* the chunk loop of imp: while value >= 10000.  ptr is the byte offset of
\* the [u8; 4] pointer, n the length counter, stores what was stored so far
RECURSIVE ImpLoop(_, _, _, _)
ImpLoop(value, n, ptr, stores) ==
    IF GeSmall(value, 10000)
    THEN LET index == Mod(value, 10000)
             chunk == LookupRead(index)
         IN  ImpLoop(Div(value, 10000), n - 4, ptr - 4,
                     stores \o [k \in 1..4 |-> [off |-> ptr - 4 + k - 1, byte |-> chunk[k]]])
    ELSE [value |-> value, n |-> n, stores |-> stores]

\* imp with `if len >= remaining_capacity`
imp_rejects_exact_fit(value, remaining, buffer_ptr) ==
    LET total_len == ilog10(value) + 1
    IN  IF total_len >= remaining
        THEN [ok |-> FALSE, total_len |-> 0, stores |-> <<>>, rem_value |-> 0, rem_len |-> 0]
        ELSE LET lp == ImpLoop(value, total_len, buffer_ptr + total_len, <<>>)
             IN  [ok |-> TRUE, total_len |-> total_len,
                  stores |-> lp.stores
                             \o write_lt_10000_unchecked(buffer_ptr, AsU16(lp.value), lp.n),
                  rem_value |-> AsU16(lp.value), rem_len |-> lp.n]

\* write_uint!'s imp(value, remaining_capacity, buffer_ptr): value non-zero
imp(value, remaining, buffer_ptr) ==
    LET total_len == ilog10(value) + 1
    IN  IF total_len > remaining
        THEN [ok |-> FALSE, total_len |-> 0, stores |-> <<>>, rem_value |-> 0, rem_len |-> 0]
        ELSE LET lp == ImpLoop(value, total_len, buffer_ptr + total_len, <<>>)
             IN  [ok |-> TRUE, total_len |-> total_len,
                  stores |-> lp.stores
                             \o write_lt_10000_unchecked(buffer_ptr, AsU16(lp.value), lp.n),
                  rem_value |-> AsU16(lp.value), rem_len |-> lp.n]

\* the body write_uint! expands to, for u16, u32, u64, u128
write_uint(b, value) ==
    IF value = <<0>>
    THEN push_str(b, <<48>>)
    ELSE LET r == imp(value, remaining_capacity(b), b.len)
         IN  IF ~r.ok
             THEN Outcome(b, FALSE, <<>>, 0, 0)
             ELSE Outcome([b EXCEPT !.len = b.len + r.total_len,
                                   !.mem = ApplyStores(b.mem, r.stores)],
                          TRUE, r.stores, r.rem_value, r.rem_len)

write_u16(b, value) == write_uint(b, value)

write_u32(b, value) == write_uint(b, value)

write_u64(b, value) == write_uint(b, value)

write_u128(b, value) == write_uint(b, value)

\* target_pointer_width = "64"
write_usize(b, value) == write_u64(b, value)

(***************************************************************************)
(* Signed writers.  A signed value is [neg, mag]: value < 0 is neg, and    *)
(* value.unsigned_abs() is mag, which always fits the unsigned type.       *)
(***************************************************************************)
unsigned_abs(value) == value.mag

push_neg(b) == push_str(b, <<45>>)

\* tri!(first) and then the rest of the body: Err returns at once
tri(first, rest) ==
    IF ~first.ok THEN first ELSE [rest EXCEPT !.stores = first.stores \o rest.stores]

\* if value < 0 { tri!(self.push_neg()) }
NegPrefix(b, value) == IF value.neg THEN push_neg(b) ELSE Outcome(b, TRUE, <<>>, 0, 0)

\* write_i8 with `value as u8` for `value.unsigned_abs()`
write_i8_casts(b, value) ==
    tri(NegPrefix(b, value),
        write_u8(NegPrefix(b, value).b,
                 IF value.neg THEN <<256 - value.mag[1]>> ELSE value.mag))

write_i8(b, value) ==
    tri(NegPrefix(b, value), write_u8(NegPrefix(b, value).b, unsigned_abs(value)))

write_i16(b, value) ==
    tri(NegPrefix(b, value), write_u16(NegPrefix(b, value).b, unsigned_abs(value)))

write_i32(b, value) ==
    tri(NegPrefix(b, value), write_u32(NegPrefix(b, value).b, unsigned_abs(value)))

write_i64(b, value) ==
    tri(NegPrefix(b, value), write_u64(NegPrefix(b, value).b, unsigned_abs(value)))

write_i128(b, value) ==
    tri(NegPrefix(b, value), write_u128(NegPrefix(b, value).b, unsigned_abs(value)))

write_isize(b, value) ==
    tri(NegPrefix(b, value), write_usize(NegPrefix(b, value).b, unsigned_abs(value)))

(***************************************************************************)
(* Concatenation: the result is a Buffer<Concat<B, A>>.                    *)
(***************************************************************************)
\* append copying other's text first
append_other_first(self, other) ==
    push_str_unchecked(
        push_str_unchecked(create(Concat(self.shape, other.shape)), as_str(other)),
        as_str(self))

append(self, other) ==
    push_str_unchecked(
        push_str_unchecked(create(Concat(self.shape, other.shape)), as_str(self)),
        as_str(other))

(***************************************************************************)
(* Writer resolution (macros.rs).  A type is a name; a resolved writer is  *)
(* [kind, ty].                                                             *)
(***************************************************************************)
IntTypes == {"u8", "u16", "u32", "u64", "u128", "usize",
             "i8", "i16", "i32", "i64", "i128", "isize"}

\* the types the dispatch is asked about; bool and f32 have no formatter
Types == IntTypes \cup {"char", "str", "bool", "f32"}

\* int!($int $func), lines 85-99, and impl ConstFormat for &str
ConstFormatTypes == IntTypes \cup {"char", "str"}

StdWriter(T) == [kind |-> "StdWriter", ty |-> T]

ConstFormatNotImplemented(T) == [kind |-> "ConstFormatNotImplemented", ty |-> T]

\* the impls of Selection: for &Selector<T> (Self is one reference deep) when
\* T: ConstFormat, and for Selector<T> (Self is no reference deep) always
HasSelection(selfDepth, T) ==
    \/ selfDepth = 1 /\ T \in ConstFormatTypes
    \/ selfDepth = 0

SelectionWriter(selfDepth, T) ==
    IF selfDepth = 1 THEN StdWriter(T) ELSE ConstFormatNotImplemented(T)

\* method lookup of .select(inf), which takes &self, on a receiver that is
\* depth references deep: at each step of the deref chain the receiver by
\* value (&Self is the receiver type), then by autoref (Self is the receiver
\* type)
RECURSIVE Probe(_, _)
Probe(depth, T) ==
    IF depth >= 1 /\ HasSelection(depth - 1, T) THEN SelectionWriter(depth - 1, T)
    ELSE IF HasSelection(depth, T) THEN SelectionWriter(depth, T)
    ELSE Probe(depth - 1, T)

\* the references get_writer! puts in front of Selector(&$val)
SelectorRefs == 4

\* get_writer! with &Selector(&$val): one reference
get_writer_one_reference(T) == Probe(1, T)

\* get_writer!(val) for val: T
get_writer(T) == Probe(SelectorRefs, T)

\* whether the writer has a display method
HasDisplay(w) == w.kind = "StdWriter" /\ w.ty \in ConstFormatTypes

\* StdWriter<T>::display(self, value, buffer): buffer.$func(*value)
display(w, value, b) ==
    CASE w.ty = "u8" -> write_u8(b, value.mag)
      [] w.ty = "u16" -> write_u16(b, value.mag)
      [] w.ty = "u32" -> write_u32(b, value.mag)
      [] w.ty = "u64" -> write_u64(b, value.mag)
      [] w.ty = "u128" -> write_u128(b, value.mag)
      [] w.ty = "usize" -> write_usize(b, value.mag)
      [] w.ty = "i8" -> write_i8(b, value)
      [] w.ty = "i16" -> write_i16(b, value)
      [] w.ty = "i32" -> write_i32(b, value)
      [] w.ty = "i64" -> write_i64(b, value)
      [] w.ty = "i128" -> write_i128(b, value)
      [] w.ty = "isize" -> write_isize(b, value)
      [] w.ty = "char" -> write_char(b, value.cp)
      [] OTHER -> push_str(b, value.text)

(***************************************************************************)
(* The inputs the model draws.  A value is [ty, neg, mag, text, cp]: its   *)
(* Rust type, sign and magnitude (integers), bytes (&str), code point      *)
(* (char).                                                                 *)
(***************************************************************************)
UInt(ty, mag) == [ty |-> ty, neg |-> FALSE, mag |-> mag, text |-> <<>>, cp |-> 0]

SInt(ty, neg, mag) == [ty |-> ty, neg |-> neg, mag |-> mag, text |-> <<>>, cp |-> 0]

Str(s) == [ty |-> "str", neg |-> FALSE, mag |-> <<0>>, text |-> s, cp |-> 0]

Char(c) == [ty |-> "char", neg |-> FALSE, mag |-> <<0>>, text |-> <<>>, cp |-> c]

NoValue == [ty |-> "none", neg |-> FALSE, mag |-> <<0>>, text |-> <<>>, cp |-> 0]

\* 0, 9, 10, 100, u8::MAX
U8Vals == {UInt("u8", <<m>>) : m \in {0, 9, 10, 100, 255}}

\* 0, 9999, 10000, 12345, u16::MAX
U16Vals == {UInt("u16", <<m>>) : m \in {0, 9999, 10000, 12345, 65535}}

\* 0, 999999999, 1000000000, u32::MAX = 4294967295
U32Vals == {UInt("u32", m) : m \in {<<0>>, <<99999, 9999>>, <<0, 10000>>, <<67295, 42949>>}}

\* 0, 10^16, u64::MAX = 18446744073709551615
U64Vals == {UInt("u64", m) : m \in {<<0>>, <<0, 0, 0, 10>>, <<51615, 37095, 74407, 18446>>}}

\* 0, 10^38, u128::MAX = 340282366920938463463374607431768211455
U128Vals == {UInt("u128", m) :
                m \in {<<0>>, <<0, 0, 0, 0, 0, 0, 0, 1000>>,
                       <<11455, 17682, 60743, 63374, 84634, 92093, 82366, 3402>>}}

\* 0, usize::MAX = 18446744073709551615
USizeVals == {UInt("usize", m) : m \in {<<0>>, <<51615, 37095, 74407, 18446>>}}

\* i8::MIN, -12, -1, 0, i8::MAX
I8Vals == {SInt("i8", TRUE, <<128>>), SInt("i8", TRUE, <<12>>), SInt("i8", TRUE, <<1>>),
           SInt("i8", FALSE, <<0>>), SInt("i8", FALSE, <<127>>)}

\* i16::MIN, -10000, i16::MAX
I16Vals == {SInt("i16", TRUE, <<32768>>), SInt("i16", TRUE, <<10000>>),
            SInt("i16", FALSE, <<32767>>)}

\* i32::MIN = -2147483648, i32::MAX = 2147483647
I32Vals == {SInt("i32", TRUE, <<83648, 21474>>), SInt("i32", FALSE, <<83647, 21474>>)}

\* i64::MIN = -9223372036854775808, i64::MAX = 9223372036854775807
I64Vals == {SInt("i64", TRUE, <<75808, 68547, 37203, 9223>>),
            SInt("i64", FALSE, <<75807, 68547, 37203, 9223>>)}

\* i128::MIN = -170141183460469231731687303715884105728, i128::MAX
I128Vals == {SInt("i128", TRUE, <<5728, 58841, 30371, 31687, 92317, 46046, 41183, 1701>>),
             SInt("i128", FALSE, <<5727, 58841, 30371, 31687, 92317, 46046, 41183, 1701>>)}

\* isize::MIN = i64::MIN, -5
ISizeVals == {SInt("isize", TRUE, <<75808, 68547, 37203, 9223>>), SInt("isize", TRUE, <<5>>)}

\* "", "7", "ab-"
StrVals == {Str(<<>>), Str(<<55>>), Str(<<97, 98, 45>>)}

\* 'a', U+00E9, U+20AC, U+1F600: one to four bytes of UTF-8
CharVals == {Char(97), Char(233), Char(8364), Char(128512)}

\* what get_writer!(x).display(&x, ..) is called with: one or two values a type
DisplayVals ==
    {UInt("u8", <<0>>), UInt("u8", <<255>>), UInt("u16", <<12345>>),
     UInt("u32", <<67295, 42949>>), UInt("u64", <<51615, 37095, 74407, 18446>>),
     UInt("u128", <<11455, 17682, 60743, 63374, 84634, 92093, 82366, 3402>>),
     UInt("usize", <<7>>), SInt("i8", TRUE, <<128>>), SInt("i16", TRUE, <<10000>>),
     SInt("i32", FALSE, <<83647, 21474>>), SInt("i64", TRUE, <<75808, 68547, 37203, 9223>>),
     SInt("i128", TRUE, <<5728, 58841, 30371, 31687, 92317, 46046, 41183, 1701>>),
     SInt("isize", TRUE, <<5>>), Char(8364), Str(<<97, 98, 45>>)}

\* the N of Buffer::new::<N>()
Caps == {4, 5, 6, 9, 40}

\* the inputs of SpecAppend
AppendCaps == {2, 3}

AppendStrs == {Str(<<97>>), Str(<<98, 99>>)}

(***************************************************************************)
(* State: the live buffers, the last call (what it was, on which buffer,   *)
(* with which argument, its outcome and the buffers as they were before    *)
(* it) and the number of calls the run may still make.                     *)
(***************************************************************************)
Last(op, idx, arg, r, pre, pre2, x, y, w) ==
    [op |-> op, idx |-> idx, arg |-> arg, ok |-> r.ok, stores |-> r.stores,
     rem_value |-> r.rem_value, rem_len |-> r.rem_len,
     pre |-> pre, pre2 |-> pre2, x |-> x, y |-> y, writer |-> w]

NoWriter == [kind |-> "none", ty |-> "none"]

\* the pre field of a call that is on no buffer
NoBuffer == create(Array(0))

Init ==
    /\ \E N \in Caps : bufs = <<new(N)>>
    /\ last = Last("new", 1, NoValue, Outcome(NoBuffer, TRUE, <<>>, 0, 0), NoBuffer, NoBuffer,
                   0, 0, NoWriter)
    /\ fuel = MaxOps

InitAppend ==
    /\ \E N \in AppendCaps : bufs = <<new(N)>>
    /\ last = Last("new", 1, NoValue, Outcome(NoBuffer, TRUE, <<>>, 0, 0), NoBuffer, NoBuffer,
                   0, 0, NoWriter)
    /\ fuel = MaxAppendOps

\* a call of a method on buffer i with outcome r
Call(op, i, arg, r, w) ==
    /\ fuel > 0
    /\ bufs' = [bufs EXCEPT ![i] = r.b]
    /\ last' = Last(op, i, arg, r, bufs[i], bufs[i], 0, 0, w)
    /\ fuel' = fuel - 1

New(N) ==
    /\ fuel > 0
    /\ Len(bufs) < MaxBufs
    /\ bufs' = Append(bufs, new(N))
    /\ last' = Last("new", Len(bufs) + 1, NoValue, Outcome(NoBuffer, TRUE, <<>>, 0, 0),
                    NoBuffer, NoBuffer, 0, 0, NoWriter)
    /\ fuel' = fuel - 1

Clear(i) == Call("clear", i, NoValue, Outcome(clear(bufs[i]), TRUE, <<>>, 0, 0), NoWriter)

PushStr(i, v) == Call("push_str", i, v, push_str(bufs[i], v.text), NoWriter)

WriteChar(i, v) == Call("write_char", i, v, write_char(bufs[i], v.cp), NoWriter)

WriteU8(i, v) == Call("write_u8", i, v, write_u8(bufs[i], v.mag), NoWriter)

WriteU16(i, v) == Call("write_u16", i, v, write_u16(bufs[i], v.mag), NoWriter)

WriteU32(i, v) == Call("write_u32", i, v, write_u32(bufs[i], v.mag), NoWriter)

WriteU64(i, v) == Call("write_u64", i, v, write_u64(bufs[i], v.mag), NoWriter)

WriteU128(i, v) == Call("write_u128", i, v, write_u128(bufs[i], v.mag), NoWriter)

WriteUsize(i, v) == Call("write_usize", i, v, write_usize(bufs[i], v.mag), NoWriter)

WriteI8(i, v) == Call("write_i8", i, v, write_i8(bufs[i], v), NoWriter)

WriteI16(i, v) == Call("write_i16", i, v, write_i16(bufs[i], v), NoWriter)

WriteI32(i, v) == Call("write_i32", i, v, write_i32(bufs[i], v), NoWriter)

WriteI64(i, v) == Call("write_i64", i, v, write_i64(bufs[i], v), NoWriter)

WriteI128(i, v) == Call("write_i128", i, v, write_i128(bufs[i], v), NoWriter)

WriteIsize(i, v) == Call("write_isize", i, v, write_isize(bufs[i], v), NoWriter)

\* let r = x.append(&y)
AppendBuffers(x, y) ==
    /\ fuel > 0
    /\ Len(bufs) < MaxBufs
    /\ bufs' = Append(bufs, append(bufs[x], bufs[y]))
    /\ last' = Last("append", Len(bufs) + 1, NoValue, Outcome(NoBuffer, TRUE, <<>>, 0, 0),
                    bufs[x], bufs[y], x, y, NoWriter)
    /\ fuel' = fuel - 1

\* get_writer!(v).display(&v, &mut buffer): compiles only when the resolved
\* writer has a display method
Display(i, v) ==
    /\ HasDisplay(get_writer(v.ty))
    /\ Call("display", i, v, display(get_writer(v.ty), v, bufs[i]), get_writer(v.ty))

\* get_writer!(v) alone, for v of type T
GetWriter(T) ==
    /\ fuel > 0
    /\ last' = Last("get_writer", 0, [NoValue EXCEPT !.ty = T], Outcome(NoBuffer, TRUE, <<>>, 0, 0),
                    NoBuffer, NoBuffer, 0, 0, get_writer(T))
    /\ fuel' = fuel - 1
    /\ UNCHANGED bufs

Next ==
    \/ \E N \in Caps : New(N)
    \/ \E i \in DOMAIN bufs : Clear(i)
    \/ \E i \in DOMAIN bufs, v \in StrVals : PushStr(i, v)
    \/ \E i \in DOMAIN bufs, v \in CharVals : WriteChar(i, v)
    \/ \E i \in DOMAIN bufs, v \in U8Vals : WriteU8(i, v)
    \/ \E i \in DOMAIN bufs, v \in U16Vals : WriteU16(i, v)
    \/ \E i \in DOMAIN bufs, v \in U32Vals : WriteU32(i, v)
    \/ \E i \in DOMAIN bufs, v \in U64Vals : WriteU64(i, v)
    \/ \E i \in DOMAIN bufs, v \in U128Vals : WriteU128(i, v)
    \/ \E i \in DOMAIN bufs, v \in USizeVals : WriteUsize(i, v)
    \/ \E i \in DOMAIN bufs, v \in I8Vals : WriteI8(i, v)
    \/ \E i \in DOMAIN bufs, v \in I16Vals : WriteI16(i, v)
    \/ \E i \in DOMAIN bufs, v \in I32Vals : WriteI32(i, v)
    \/ \E i \in DOMAIN bufs, v \in I64Vals : WriteI64(i, v)
    \/ \E i \in DOMAIN bufs, v \in I128Vals : WriteI128(i, v)
    \/ \E i \in DOMAIN bufs, v \in ISizeVals : WriteIsize(i, v)
    \/ \E x \in DOMAIN bufs, y \in DOMAIN bufs : AppendBuffers(x, y)

Spec == Init /\ [][Next]_vars

\* buffers built by push_str and clear, and appended
NextAppend ==
    \/ \E N \in AppendCaps : New(N)
    \/ \E i \in DOMAIN bufs : Clear(i)
    \/ \E i \in DOMAIN bufs, v \in AppendStrs : PushStr(i, v)
    \/ \E x \in DOMAIN bufs, y \in DOMAIN bufs : AppendBuffers(x, y)

SpecAppend == InitAppend /\ [][NextAppend]_vars

\* writers resolved by get_writer! and used, on buffers with some text
NextDispatch ==
    \/ \E i \in DOMAIN bufs, v \in StrVals : PushStr(i, v)
    \/ \E i \in DOMAIN bufs, v \in DisplayVals : Display(i, v)
    \/ \E T \in Types : GetWriter(T)

SpecDispatch == Init /\ [][NextDispatch]_vars

(***************************************************************************)
(* The reference the properties compare with: the conventional decimal     *)
(* rendering of a number and a decimal parser, both digit by digit on the  *)
(* limbs, with no use of the encoder's table or of its chunks.             *)
(***************************************************************************)
RECURSIVE DigitsSmall(_)
DigitsSmall(n) ==
    IF n < 10 THEN <<48 + n>> ELSE DigitsSmall(n \div 10) \o <<48 + (n % 10)>>

\* a limb below the top one: five digits, zeros kept
Pad5(n) ==
    <<48 + (n \div 10000), 48 + ((n \div 1000) % 10), 48 + ((n \div 100) % 10),
      48 + ((n \div 10) % 10), 48 + (n % 10)>>

RECURSIVE Decimal(_)
Decimal(v) ==
    IF Len(v) = 1 THEN DigitsSmall(v[1]) ELSE Decimal(Tail(v)) \o Pad5(Head(v))

Rendering(value) == (IF value.neg THEN <<45>> ELSE <<>>) \o Decimal(value.mag)

DigitCount(v) == Len(Decimal(v))

\* bytes the decimal text of value takes
Needed(value) == DigitCount(value.mag) + (IF value.neg THEN 1 ELSE 0)

\* the number a run of at most five digits spells
RECURSIVE ParseSmall(_)
ParseSmall(s) ==
    IF s = <<>> THEN 0
    ELSE (ParseSmall(SubSeq(s, 1, Len(s) - 1)) * 10) + (s[Len(s)] - 48)

\* the limbs digits spell, five digits a limb from the right
RECURSIVE ParseLimbs(_)
ParseLimbs(s) ==
    IF Len(s) <= 5 THEN <<ParseSmall(s)>>
    ELSE <<ParseSmall(SubSeq(s, Len(s) - 4, Len(s)))>> \o ParseLimbs(SubSeq(s, 1, Len(s) - 5))

ParseDigits(s) == Norm(ParseLimbs(s))

AllDigits(s) == s # <<>> /\ \A k \in DOMAIN s : s[k] \in 48..57

\* str::parse of an integer: an optional '-', then digits only
Parse(s) ==
    IF s # <<>> /\ s[1] = 45
    THEN [ok |-> AllDigits(Tail(s)), neg |-> ParseDigits(Tail(s)) # <<0>>,
          mag |-> IF AllDigits(Tail(s)) THEN ParseDigits(Tail(s)) ELSE <<0>>]
    ELSE [ok |-> AllDigits(s), neg |-> FALSE,
          mag |-> IF AllDigits(s) THEN ParseDigits(s) ELSE <<0>>]

Reparses(s, value) ==
    Parse(s).ok /\ Parse(s).neg = value.neg /\ Parse(s).mag = value.mag

UnsignedWriters == {"write_u8", "write_u16", "write_u32", "write_u64", "write_u128",
                    "write_usize"}

SignedWriters == {"write_i8", "write_i16", "write_i32", "write_i64", "write_i128",
                  "write_isize"}

IntWriters == UnsignedWriters \cup SignedWriters

Writers == IntWriters \cup {"push_str", "write_char"}

\* the buffer the last call was on (or made), as it is now
Post == bufs[last.idx]

\* the text the last call added
Written == SubSeq(as_str(Post), len(last.pre) + 1, len(Post))

(***************************************************************************)
(* C1: an unsigned writer on a buffer with at least as many bytes left as  *)
(* the value has decimal digits returns Ok, and the text is now the old    *)
(* text followed by the decimal rendering of the value (no leading zeros,  *)
(* "0" for 0), which parses back to the value.                             *)
(***************************************************************************)
C1_UnsignedRoundTrip ==
    (last.op \in UnsignedWriters
        /\ remaining_capacity(last.pre) >= DigitCount(last.arg.mag))
    => /\ last.ok
       /\ as_str(Post) = as_str(last.pre) \o Decimal(last.arg.mag)
       /\ Reparses(Written, last.arg)

\* u128::MAX written after some text
C1_Witness ==
    /\ last.op = "write_u128"
    /\ last.arg.mag = <<11455, 17682, 60743, 63374, 84634, 92093, 82366, 3402>>
    /\ len(last.pre) > 0
    /\ last.ok
    /\ len(Post) = len(last.pre) + 39

(***************************************************************************)
(* C2: a signed writer on a buffer with room for the text appends a '-'    *)
(* exactly when the value is negative, then the digits of its magnitude,   *)
(* and the text parses back to the value, the minimum of the width         *)
(* included; write_i8(-12) on an empty buffer of capacity 4 gives "-12"    *)
(* and len 3, write_i8(-128) gives "-128".                                 *)
(***************************************************************************)
C2_SignedRoundTrip ==
    /\ (last.op \in SignedWriters /\ remaining_capacity(last.pre) >= Needed(last.arg))
       => /\ last.ok
          /\ as_str(Post) = as_str(last.pre) \o Rendering(last.arg)
          /\ Reparses(Written, last.arg)
          /\ (Written[1] = 45) <=> last.arg.neg
          /\ \A k \in 2..Len(Written) : Written[k] # 45
    /\ (last.op = "write_i8" /\ last.pre = new(4) /\ last.arg = SInt("i8", TRUE, <<12>>))
       => as_str(Post) = <<45, 49, 50>> /\ len(Post) = 3
    /\ (last.op = "write_i8" /\ last.pre = new(4) /\ last.arg = SInt("i8", TRUE, <<128>>))
       => as_str(Post) = <<45, 49, 50, 56>>

\* i8::MIN written into an empty buffer of capacity 4
C2_Witness ==
    /\ last.op = "write_i8"
    /\ last.arg = SInt("i8", TRUE, <<128>>)
    /\ last.pre = new(4)
    /\ last.ok
    /\ len(Post) = 4

(***************************************************************************)
(* C3: a writer that returns Err leaves len and the text as they were.     *)
(***************************************************************************)
C3_FailureIsAtomic ==
    (last.op \in Writers /\ ~last.ok)
    => len(Post) = len(last.pre) /\ as_str(Post) = as_str(last.pre)

(***************************************************************************)
(* C4: an integer writer returns Ok exactly when the bytes the value needs *)
(* (its digits, and one more when negative) are at most the bytes left;    *)
(* needing exactly the bytes left it fills the buffer; needing one more it *)
(* fails; on Ok len grows by exactly the bytes needed.                     *)
(***************************************************************************)
C4_CapacityBoundary ==
    last.op \in IntWriters
    => /\ last.ok <=> Needed(last.arg) <= remaining_capacity(last.pre)
       /\ Needed(last.arg) = remaining_capacity(last.pre)
          => last.ok /\ remaining_capacity(Post) = 0
       /\ Needed(last.arg) = remaining_capacity(last.pre) + 1 => ~last.ok
       /\ last.ok => len(Post) = len(last.pre) + Needed(last.arg)

\* a negative value that fills a buffer holding some text exactly
C4_Witness ==
    /\ last.op \in SignedWriters
    /\ last.arg.neg
    /\ len(last.pre) > 0
    /\ Needed(last.arg) = remaining_capacity(last.pre)
    /\ last.ok
    /\ remaining_capacity(Post) = 0

(***************************************************************************)
(* C5 as stated: write_u16(12345) fails on an empty buffer of capacity 5   *)
(* and leaves len 0; on one of capacity 6 it gives "12345", len 5 and one  *)
(* byte left.                                                              *)
(***************************************************************************)
C5_AsStated ==
    (last.op = "write_u16" /\ last.arg.mag = <<12345>>)
    => /\ last.pre = new(5) => ~last.ok /\ len(Post) = 0 /\ Post = last.pre
       /\ last.pre = new(6)
          => /\ last.ok
             /\ as_str(Post) = <<49, 50, 51, 52, 53>>
             /\ len(Post) = 5
             /\ remaining_capacity(Post) = 1

(***************************************************************************)
(* C5 amended: 12345 has five digits, so write_u16(12345) succeeds on an   *)
(* empty buffer of capacity 5, with "12345", len 5 and no byte left; it    *)
(* fails, leaving len 0, on one of capacity 4; on one of capacity 6 it     *)
(* gives "12345", len 5 and one byte left.                                 *)
(***************************************************************************)
C5_Scenario ==
    (last.op = "write_u16" /\ last.arg.mag = <<12345>>)
    => /\ last.pre = new(5)
          => /\ last.ok
             /\ as_str(Post) = <<49, 50, 51, 52, 53>>
             /\ len(Post) = 5
             /\ remaining_capacity(Post) = 0
       /\ last.pre = new(4) => ~last.ok /\ len(Post) = 0 /\ Post = last.pre
       /\ last.pre = new(6)
          => /\ last.ok
             /\ as_str(Post) = <<49, 50, 51, 52, 53>>
             /\ len(Post) = 5
             /\ remaining_capacity(Post) = 1

\* write_u16(12345) returned Ok on an empty buffer of capacity 5
C5_Witness ==
    /\ last.op = "write_u16"
    /\ last.arg.mag = <<12345>>
    /\ last.pre = new(5)
    /\ last.ok

(***************************************************************************)
(* C6: x.append(&y) gives a buffer whose text is x's text followed by y's, *)
(* whose len is the sum of the lens and whose capacity is the sum of the   *)
(* capacities, also when x or y is Concat-backed; x and y are unchanged.   *)
(***************************************************************************)
C6_Concatenation ==
    last.op = "append"
    => /\ as_str(Post) = as_str(last.pre) \o as_str(last.pre2)
       /\ len(Post) = len(last.pre) + len(last.pre2)
       /\ capacity(Post) = capacity(last.pre) + capacity(last.pre2)
       /\ Len(Post.mem) = capacity(Post)
       /\ bufs[last.x] = last.pre
       /\ bufs[last.y] = last.pre2

\* two different buffers with different, non-empty texts, one of them
\* Concat-backed, were appended
C6_Witness ==
    /\ last.op = "append"
    /\ last.x # last.y
    /\ IsConcat(last.pre.shape) \/ IsConcat(last.pre2.shape)
    /\ len(last.pre) > 0
    /\ len(last.pre2) > 0
    /\ as_str(last.pre) \o as_str(last.pre2) # as_str(last.pre2) \o as_str(last.pre)
    /\ IsConcat(Post.shape)

(***************************************************************************)
(* C7: whatever was called, and whether it returned Ok or Err, every       *)
(* buffer has len <= capacity, so capacity - len is never negative, and    *)
(* the call left the capacity (and the storage size) of its buffer as it   *)
(* was.                                                                    *)
(***************************************************************************)
C7_LenWithinCapacity ==
    /\ \A i \in DOMAIN bufs :
          /\ len(bufs[i]) >= 0
          /\ len(bufs[i]) <= capacity(bufs[i])
          /\ remaining_capacity(bufs[i]) >= 0
          /\ Len(bufs[i].mem) = capacity(bufs[i])
    /\ last.op \in Writers \cup {"clear"} => capacity(Post) = capacity(last.pre)

\* a write failed on a buffer that is full
C7_Witness ==
    /\ last.op \in Writers
    /\ ~last.ok
    /\ len(Post) = capacity(Post)
    /\ len(Post) > 0

\* the built-in types of the dispatch
BuiltinTypes == {"u8", "u16", "u32", "u64", "u128", "usize", "i8", "i16", "i32", "i64",
                 "i128", "isize", "char", "str"}

\* the Buffer method of a built-in type, called directly
Direct(b, value) ==
    CASE value.ty = "u8" -> write_u8(b, value.mag)
      [] value.ty = "u16" -> write_u16(b, value.mag)
      [] value.ty = "u32" -> write_u32(b, value.mag)
      [] value.ty = "u64" -> write_u64(b, value.mag)
      [] value.ty = "u128" -> write_u128(b, value.mag)
      [] value.ty = "usize" -> write_usize(b, value.mag)
      [] value.ty = "i8" -> write_i8(b, value)
      [] value.ty = "i16" -> write_i16(b, value)
      [] value.ty = "i32" -> write_i32(b, value)
      [] value.ty = "i64" -> write_i64(b, value)
      [] value.ty = "i128" -> write_i128(b, value)
      [] value.ty = "isize" -> write_isize(b, value)
      [] value.ty = "char" -> write_char(b, value.cp)
      [] value.ty = "str" -> push_str(b, value.text)

(***************************************************************************)
(* C8: get_writer! resolves every built-in type to its ConstFormat writer, *)
(* whose display gives the result and the buffer that the Buffer method of *)
(* that type gives; a type with no ConstFormat writer resolves to          *)
(* ConstFormatNotImplemented, which has no display.                        *)
(***************************************************************************)
C8_Dispatch ==
    /\ last.op = "display"
       => /\ last.arg.ty \in BuiltinTypes
          /\ last.writer = StdWriter(last.arg.ty)
          /\ last.ok = Direct(last.pre, last.arg).ok
          /\ Post = Direct(last.pre, last.arg).b
    /\ last.op = "get_writer"
       => /\ last.arg.ty \in BuiltinTypes
             => last.writer = StdWriter(last.arg.ty) /\ HasDisplay(last.writer)
          /\ last.arg.ty \notin BuiltinTypes
             => /\ last.writer = ConstFormatNotImplemented(last.arg.ty)
                /\ ~HasDisplay(last.writer)

\* the i64 writer was resolved and wrote i64::MIN after some text
C8_Witness ==
    /\ last.op = "display"
    /\ last.arg.ty = "i64"
    /\ last.writer = StdWriter("i64")
    /\ len(last.pre) > 0
    /\ last.ok
    /\ len(Post) = len(last.pre) + 20

(***************************************************************************)
(* C9: write_u32(i) on a fresh empty buffer of capacity 9 leaves the text  *)
(* equal to the decimal rendering of i, for every u32 i.                   *)
(***************************************************************************)
C9_AllU32InNine ==
    (last.op = "write_u32" /\ last.pre = new(9))
    => as_str(Post) = Decimal(last.arg.mag)

\* the encoder ran: not the "0" literal of write_uint!
EncoderRan == last.op = "write_u8" \/ last.arg.mag # <<0>>

(***************************************************************************)
(* C10: in an unsigned write that passed the capacity check, with old the  *)
(* len before and d the digit count, every store is at an offset in        *)
(* [old, old + d), inside the storage; the bytes before old and from       *)
(* old + d on are as they were; the value left for the tail is below 10000 *)
(* and the length counter left is its digit count (1..4); the tail makes   *)
(* four stores and each chunk four.                                        *)
(***************************************************************************)
C10_StoresInBounds ==
    (last.op \in UnsignedWriters /\ last.ok)
    => LET old == len(last.pre)
           d   == DigitCount(last.arg.mag)
       IN  /\ \A k \in DOMAIN last.stores :
                 /\ last.stores[k].off >= old
                 /\ last.stores[k].off < old + d
                 /\ last.stores[k].off < capacity(last.pre)
                 /\ last.stores[k].byte \in 48..57
           /\ SubSeq(Post.mem, 1, old) = SubSeq(last.pre.mem, 1, old)
           /\ SubSeq(Post.mem, old + d + 1, capacity(Post))
              = SubSeq(last.pre.mem, old + d + 1, capacity(Post))
           /\ EncoderRan
              => /\ last.rem_value < 10000
                 /\ last.rem_len \in 1..4
                 /\ last.rem_len = DigitCount(<<last.rem_value>>)
                 /\ (d - last.rem_len) % 4 = 0
                 /\ Len(last.stores) = 4 + (d - last.rem_len)

\* u128::MAX after some text: nine chunks and a tail of three digits
C10_Witness ==
    /\ last.op = "write_u128"
    /\ last.arg.mag = <<11455, 17682, 60743, 63374, 84634, 92093, 82366, 3402>>
    /\ last.ok
    /\ len(last.pre) > 0
    /\ last.rem_len = 3
    /\ Len(last.stores) = 40

====
